---------------------------- MODULE Spec2Model ----------------------------
(***************************************************************************)
(* A model of crawler.js: the recursive, depth-bounded crawl of one domain *)
(* (crawlUrl), the per-domain wrapper (crawlDomain), the batched           *)
(* orchestrator (crawlDomains) and the entry point.                        *)
(*                                                                         *)
(* Strings.  A JavaScript string is modelled as a sequence of tokens, each *)
(* token standing for a fixed run of characters ("https:", "//", "shop",   *)
(* "/product/", ...).  The tokens are cut so that, for the strings of this *)
(* model, one string contains another as a run of characters exactly when  *)
(* its token sequence contains the other's token sequence.                 *)
(*                                                                         *)
(* Asynchrony.  Each action is one continuation of the program: the code   *)
(* that runs between two awaits.  A domain crawl is a stack of crawlUrl    *)
(* activations; the top one is the one that runs.                          *)
(***************************************************************************)
EXTENDS Integers, Sequences, FiniteSets, TLC

(***************************************************************************)
(* Configuration constants of crawler.js                                   *)
(***************************************************************************)
MAX_DEPTH == 3
PRODUCT_PATTERNS == <<"/product/", "/item/", "/p/">>
PARALLEL_REQUESTS == 5
RETRY_LIMIT == 3

(***************************************************************************)
(* Bounds of the model                                                     *)
(***************************************************************************)
\* The environment answers at most MaxFaults requests of one run with a
\* failure (a 429 or any other error); every other request succeeds.
MaxFaults == 3
\* The number of domains of the multi-domain inputs.
NumDomains == 6

(***************************************************************************)
(* Strings                                                                 *)
(***************************************************************************)
\* String.prototype.includes
Includes(s, t) ==
  \E i \in 0..(Len(s) - Len(t)) : SubSeq(s, i + 1, i + Len(t)) = t

\* Array.prototype.push in place of Set.prototype.add
SetAddPushes(s, x) == Append(s, x)

\* Set.prototype.add on a Set kept in insertion order
SetAdd(s, x) == IF \E i \in 1..Len(s) : s[i] = x THEN s ELSE Append(s, x)

RECURSIVE SetAddAll(_, _)
\* xs.forEach((x) => s.add(x))
SetAddAll(s, xs) ==
  IF xs = <<>> THEN s ELSE SetAddAll(SetAdd(s, Head(xs)), Tail(xs))

Range(s) == {s[i] : i \in 1..Len(s)}

(***************************************************************************)
(* WHATWG URL, as far as the strings of the model need it                  *)
(***************************************************************************)
Schemes == {"https:", "a:", "b:"}
SpecialSchemes == {"https:"}
\* tokens that start with the character "/" and are not the "//" marker
PathTokens == {"/", "/r", "/a", "/b", "/x", "/y", "/product/", "/item/", "/p/"}
LabelTokens == {"shop", "evil-", "other"}
HexGroupTokens == {"a:", "b:"}

Failure == [ok |-> FALSE]

\* the number of tokens before the first path token
RECURSIVE HostLen(_)
HostLen(s) ==
  IF s = <<>> \/ Head(s) \in PathTokens THEN 0 ELSE 1 + HostLen(Tail(s))

\* a domain name, or an IPv6 literal in brackets
ValidHost(h) ==
  /\ h /= <<>>
  /\ \/ \A i \in 1..Len(h) : h[i] \in LabelTokens
     \/ /\ Len(h) >= 3
        /\ h[1] = "["
        /\ h[Len(h)] = ":]"
        /\ \A i \in 2..(Len(h) - 1) : h[i] \in HexGroupTokens

\* scheme, then host and path
ParseAuthority(scheme, s) ==
  LET n == HostLen(s)
      host == SubSeq(s, 1, n)
      path == SubSeq(s, n + 1, Len(s))
  IN IF ~ValidHost(host) THEN Failure
     ELSE [ok |-> TRUE, scheme |-> scheme, host |-> host, opaque |-> FALSE,
           path |-> IF path = <<>> /\ scheme \in SpecialSchemes
                    THEN <<"/">> ELSE path]

\* the basic URL parser on a string that must stand alone
ParseAbsolute(s) ==
  IF s = <<>> \/ Head(s) \notin Schemes THEN Failure
  ELSE LET rest == Tail(s) IN
       IF rest /= <<>> /\ Head(rest) = "//"
       THEN ParseAuthority(Head(s), Tail(rest))
       ELSE IF Head(s) \in SpecialSchemes
       THEN ParseAuthority(Head(s), rest)
       ELSE [ok |-> TRUE, scheme |-> Head(s), host |-> <<>>, opaque |-> TRUE,
             path |-> rest]

\* new URL(url, base): throws (Failure) when the base does not parse, and
\* when a relative url meets a base with an opaque path.
URLParse(url, base) ==
  LET b == ParseAbsolute(base) IN
  IF ~b.ok THEN Failure
  ELSE IF url /= <<>> /\ Head(url) \in Schemes THEN ParseAbsolute(url)
  ELSE IF b.opaque THEN Failure
  ELSE IF url = <<>> THEN b
  ELSE IF Head(url) = "//" THEN ParseAuthority(b.scheme, Tail(url))
  ELSE IF Head(url) \in PathTokens THEN [b EXCEPT !.path = url]
  ELSE Failure

\* URL.prototype.hostname
Hostname(u) == u.host

\* URL.prototype.href
Href(u) ==
  IF u.opaque THEN <<u.scheme>> \o u.path
  ELSE <<u.scheme, "//">> \o u.host \o u.path

(***************************************************************************)
(* crawler.js: helpers                                                     *)
(***************************************************************************)
isValidUrl(url, baseDomain) ==
  LET parsedUrl == URLParse(url, baseDomain) IN
  IF parsedUrl.ok THEN Includes(Hostname(parsedUrl), baseDomain) ELSE FALSE

isProductUrl(url) ==
  \E i \in 1..Len(PRODUCT_PATTERNS) : Includes(url, <<PRODUCT_PATTERNS[i]>>)


(***************************************************************************)
(* The web: what axios.get and the a[href] selection return                *)
(***************************************************************************)
Pages == {"R", "A", "B", "X", "Y"}
Products == {"Q1", "Q2"}
Targets == Pages \cup Products

PagePath(t) ==
  CASE t = "R" -> <<"/">>
    [] t = "A" -> <<"/a">>
    [] t = "B" -> <<"/b">>
    [] t = "X" -> <<"/x">>
    [] t = "Y" -> <<"/y">>
    [] t = "Q1" -> <<"/product/", "1">>
    [] t = "Q2" -> <<"/p/", "2">>

\* the href attribute a page of the site carries for target t: an absolute
\* URL on the site's host (the home page without a trailing slash), or a
\* path-absolute reference
RawLink(site, t) ==
  IF site.form = "abs"
  THEN <<"https:", "//">> \o site.host \o (IF t = "R" THEN <<>> ELSE PagePath(t))
  ELSE PagePath(t)

\* the page a request for url is answered with: the home page for the
\* domain's own URL, else the page at the URL's path ("none" when there is
\* no such page)
PageAt(url, domain) ==
  IF url = domain THEN "R"
  ELSE LET u == ParseAbsolute(url) IN
       IF u.ok /\ \E t \in Targets : PagePath(t) = u.path
       THEN CHOOSE t \in Targets : PagePath(t) = u.path
       ELSE "none"

\* $('a[href]') of the response: the href strings in document order
Hrefs(site, domain, url) ==
  LET p == PageAt(url, domain) IN
  IF p \in Pages
  THEN [i \in 1..Len(site.links[p]) |-> RawLink(site, site.links[p][i])]
  ELSE <<>>

\* the URLs the site answers: the domain's own, and one per page and product
SiteUrls(site, domain) ==
  {domain} \cup
  {Href(ParseAbsolute(<<"https:", "//">> \o site.host \o PagePath(t))) :
     t \in Targets}

\* the site as the crawl sees it: for each URL, the hrefs of its page
Served(site, domain) ==
  [u \in SiteUrls(site, domain) |-> Hrefs(site, domain, u)]

(***************************************************************************)
(* crawlUrl                                                                *)
(***************************************************************************)
\* the entry guard without the depth bound
EntryGuardRejectsVisited(url, visitedUrls, depth) == url \in visitedUrls

\* the entry guard with "and" for "or"
EntryGuardRejectsBoth(url, visitedUrls, depth) ==
  depth > MAX_DEPTH /\ url \in visitedUrls

\* the entry guard without the visited set
EntryGuardRejectsDeep(url, visitedUrls, depth) == depth > MAX_DEPTH

\* line 47: the entry guard
EntryGuardRejects(url, visitedUrls, depth) ==
  depth > MAX_DEPTH \/ url \in visitedUrls

\* the retry loop with one attempt too many
RetryLoopContinuesInclusive(attempts) == attempts <= RETRY_LIMIT

\* line 51: the retry loop's condition
RetryLoopContinues(attempts) == attempts < RETRY_LIMIT

\* An activation of crawlUrl.  at: "get" (awaiting axios.get), "cooldown"
\* (awaiting delay(3000)), "delay" (awaiting the delay before a child),
\* "child" (awaiting the child's promise), "done" (returned ret).
\* entered: whether the call passed the entry guard (history).
Activation(url, depth, at) ==
  [url |-> url, depth |-> depth, at |-> at, attempts |-> 0,
   entered |-> at /= "done", productUrls |-> <<>>, internalUrls |-> <<>>, idx |-> 0, ret |-> <<>>]

\* an entry of the history of a domain crawl
Event(ev, url, depth, ret) ==
  [ev |-> ev, url |-> url, depth |-> depth, ret |-> ret]

\* the URL marked before the depth is tested
CallCrawlUrlMarksFirst(url, visitedUrls, depth) ==
  IF url \in visitedUrls
  THEN [act |-> Activation(url, depth, "done"), visitedUrls |-> visitedUrls,
        events |-> <<Event("skip", url, depth, <<>>)>>]
  ELSE IF depth > MAX_DEPTH
  THEN [act |-> Activation(url, depth, "done"),
        visitedUrls |-> visitedUrls \cup {url},
        events |-> <<Event("skip", url, depth, <<>>)>>]
  ELSE [act |-> Activation(url, depth, "get"),
        visitedUrls |-> visitedUrls \cup {url},
        events |-> <<Event("mark", url, depth, <<>>),
                     Event("get", url, depth, <<>>)>>]

\* lines 47-53: the call of crawlUrl up to its first await
CallCrawlUrl(url, visitedUrls, depth) ==
  IF EntryGuardRejects(url, visitedUrls, depth)
  THEN [act |-> Activation(url, depth, "done"), visitedUrls |-> visitedUrls,
        events |-> <<Event("skip", url, depth, <<>>)>>]
  ELSE [act |-> Activation(url, depth, "get"),
        visitedUrls |-> visitedUrls \cup {url},
        events |-> <<Event("mark", url, depth, <<>>),
                     Event("get", url, depth, <<>>)>>]

\* a product link listed and queued as well
ClassifyLinkQueuesProducts(acc, link, baseDomain, visitedUrls) ==
  IF isValidUrl(link, baseDomain)
  THEN LET absoluteUrl == Href(URLParse(link, baseDomain))
           listed == IF isProductUrl(absoluteUrl)
                     THEN [acc EXCEPT !.productUrls = SetAdd(@, absoluteUrl)]
                     ELSE acc
       IN IF absoluteUrl \notin visitedUrls
          THEN [listed EXCEPT !.internalUrls = Append(@, absoluteUrl)]
          ELSE listed
  ELSE acc

\* lines 68-76: one link of the page
ClassifyLink(acc, link, baseDomain, visitedUrls) ==
  IF isValidUrl(link, baseDomain)
  THEN LET absoluteUrl == Href(URLParse(link, baseDomain)) IN
       IF isProductUrl(absoluteUrl)
       THEN [acc EXCEPT !.productUrls = SetAdd(@, absoluteUrl)]
       ELSE IF absoluteUrl \notin visitedUrls
       THEN [acc EXCEPT !.internalUrls = Append(@, absoluteUrl)]
       ELSE acc
  ELSE acc

RECURSIVE ExtractLinks(_, _, _, _)
\* lines 61-77: the loop over the links of the page, in document order
ExtractLinks(acc, links, baseDomain, visitedUrls) ==
  IF links = <<>> THEN acc
  ELSE ExtractLinks(ClassifyLink(acc, Head(links), baseDomain, visitedUrls),
                    Tail(links), baseDomain, visitedUrls)

\* lines 80-86: the head of the loop over internalUrls, at index idx
\* (0-based): await the delay before the next child, or return
LoopOverChildren(act) ==
  IF act.idx < Len(act.internalUrls)
  THEN [act EXCEPT !.at = "delay"]
  ELSE [act EXCEPT !.at = "done", !.ret = act.productUrls]

\* the index of the next element of internalUrls
NextChildIndex(idx) == idx + 1

\* the child's URLs dropped
MergeChildSkips(productUrls, childProductUrls) == productUrls

\* the child's URLs taken for the parent's set
MergeChildReplaces(productUrls, childProductUrls) == childProductUrls

\* line 83: the child's URLs are added to the parent's set
MergeChild(productUrls, childProductUrls) ==
  SetAddAll(productUrls, childProductUrls)

(***************************************************************************)
(* State                                                                   *)
(***************************************************************************)
VARIABLES
  domains,      \* the list handed to crawlDomains
  web,          \* web[k]: the site that answers the requests of domain k
  pc,           \* entry point: "start", "awaitAll", "returned", "exit"
  i,            \* crawlDomains: the loop index
  results,      \* crawlDomains: the results array
  saved,        \* what saveResults wrote, one element per call
  status,       \* status[k]: "pending", "running", "resolved" (crawlDomain k)
  visitedUrls,  \* visitedUrls[k]: the Set of crawlDomain k
  stack,        \* stack[k]: the crawlUrl activations of domain k, root first
  value,        \* value[k]: what the promise of crawlDomain k resolved with
  trace,        \* trace[k]: what domain k did, in order (history)
  faults        \* the failures the environment has answered with (history)

vars == <<domains, web, pc, i, results, saved, status, visitedUrls, stack,
          value, trace, faults>>

Tasks == 1..Len(domains)

Top(k) == stack[k][Len(stack[k])]

\* domains.slice(i, i + PARALLEL_REQUESTS), as indices into domains
Slice(from) ==
  {k \in Tasks : from < k /\ k <= from + PARALLEL_REQUESTS}

(***************************************************************************)
(* crawlDomain and crawlDomains                                            *)
(***************************************************************************)
\* crawlDomain with one Set for all the domains
CallCrawlDomainShared(domain) ==
  CallCrawlUrl(domain, UNION {visitedUrls[k] : k \in Tasks}, 0)

\* lines 104-107: crawlDomain up to its first await
CallCrawlDomain(domain) == CallCrawlUrl(domain, {}, 0)

\* lines 117-119: the loop test, then the batch's crawlDomain calls, each
\* run up to its first await; or line 123
EnterLoop(from) ==
  IF from < Len(domains)
  THEN /\ pc' = "awaitAll"
       /\ status' = [k \in Tasks |->
            IF k \in Slice(from) THEN "running" ELSE status[k]]
       /\ visitedUrls' = [k \in Tasks |->
            IF k \in Slice(from)
            THEN CallCrawlDomain(domains[k]).visitedUrls ELSE visitedUrls[k]]
       /\ stack' = [k \in Tasks |->
            IF k \in Slice(from)
            THEN <<CallCrawlDomain(domains[k]).act>> ELSE stack[k]]
       /\ trace' = [k \in Tasks |->
            IF k \in Slice(from)
            THEN <<Event("start", domains[k], 0, <<>>)>>
                 \o CallCrawlDomain(domains[k]).events
            ELSE trace[k]]
  ELSE /\ pc' = "returned"
       /\ UNCHANGED <<status, visitedUrls, stack, trace>>

\* lines 138-145 and 114-119: the entry point calls crawlDomains
Main ==
  /\ pc = "start"
  /\ i' = 0
  /\ results' = <<>>
  /\ EnterLoop(0)
  /\ UNCHANGED <<domains, web, saved, value, faults>>

\* a race in place of Promise.all: one resolved promise is enough
BatchSettledAny(from) == \E k \in Slice(from) : status[k] = "resolved"

\* line 119: Promise.all resolves when every promise of the batch has
BatchSettled(from) == \A k \in Slice(from) : status[k] = "resolved"

\* the values of a batch taken last first
BatchResultsReversed(from) ==
  LET hi == IF from + PARALLEL_REQUESTS < Len(domains)
            THEN from + PARALLEL_REQUESTS ELSE Len(domains)
  IN [j \in 1..(hi - from) |-> value[hi + 1 - j]]

\* line 119: what Promise.all resolves with: the values of the promises of
\* the batch, in the order of the promises
BatchResults(from) ==
  LET hi == IF from + PARALLEL_REQUESTS < Len(domains)
            THEN from + PARALLEL_REQUESTS ELSE Len(domains)
  IN [j \in 1..(hi - from) |-> value[from + j]]

\* lines 119-121 and 117: Promise.all of the batch has resolved
BatchDone ==
  /\ pc = "awaitAll"
  /\ BatchSettled(i)
  /\ LET batchResults == BatchResults(i)
     IN /\ results' = results \o batchResults
        /\ i' = i + PARALLEL_REQUESTS
        /\ EnterLoop(i + PARALLEL_REQUESTS)
  /\ UNCHANGED <<domains, web, saved, value, faults>>

\* lines 145-146 and 129-133: crawlDomains has resolved; saveResults
SaveResults ==
  /\ pc = "returned"
  /\ saved' = Append(saved, results)
  /\ pc' = "exit"
  /\ UNCHANGED <<domains, web, i, results, status, visitedUrls, stack, value,
                 trace, faults>>

(***************************************************************************)
(* The continuations of crawlUrl, for the running activation of domain k   *)
(***************************************************************************)
Running(k, at) ==
  /\ status[k] = "running"
  /\ stack[k] /= <<>>
  /\ Top(k).at = at

SetTop(k, act) ==
  stack' = [stack EXCEPT ![k] = [@ EXCEPT ![Len(@)] = act]]

Log(k, events) == trace' = [trace EXCEPT ![k] = @ \o events]

\* lines 59-80: the request succeeded
GetOk(k) ==
  /\ Running(k, "get")
  /\ LET top == Top(k)
         links == web[k].pages[top.url]
         found == ExtractLinks([productUrls |-> <<>>, internalUrls |-> <<>>],
                               links, domains[k], visitedUrls[k])
     IN /\ SetTop(k, LoopOverChildren(
             [top EXCEPT !.productUrls = found.productUrls,
                         !.internalUrls = found.internalUrls,
                         !.idx = 0]))
        /\ Log(k, <<Event("ok", top.url, top.depth, <<>>)>>)
  /\ UNCHANGED <<domains, web, pc, i, results, saved, status, visitedUrls,
                 value, faults>>

\* lines 87-90: the request failed with status 429
Get429(k) ==
  /\ Running(k, "get")
  /\ faults < MaxFaults
  /\ faults' = faults + 1
  /\ SetTop(k, [Top(k) EXCEPT !.at = "cooldown"])
  /\ Log(k, <<Event("429", Top(k).url, Top(k).depth, <<>>)>>)
  /\ UNCHANGED <<domains, web, pc, i, results, saved, status, visitedUrls,
                 value>>

\* the failure thrown on instead of caught: the promise of crawlDomain
\* rejects
GetErrThrows(k) ==
  /\ Running(k, "get")
  /\ faults < MaxFaults
  /\ faults' = faults + 1
  /\ status' = [status EXCEPT ![k] = "rejected"]
  /\ stack' = [stack EXCEPT ![k] = <<>>]
  /\ Log(k, <<Event("err", Top(k).url, Top(k).depth, <<>>)>>)
  /\ UNCHANGED <<domains, web, pc, i, results, saved, visitedUrls, value>>

\* any failure handled as the 429 is: cooldown, then another attempt
GetErrRetries(k) ==
  /\ Running(k, "get")
  /\ faults < MaxFaults
  /\ faults' = faults + 1
  /\ SetTop(k, [Top(k) EXCEPT !.at = "cooldown"])
  /\ Log(k, <<Event("err", Top(k).url, Top(k).depth, <<>>)>>)
  /\ UNCHANGED <<domains, web, pc, i, results, saved, status, visitedUrls,
                 value>>

\* lines 87-94: the request failed otherwise
GetErr(k) ==
  /\ Running(k, "get")
  /\ faults < MaxFaults
  /\ faults' = faults + 1
  /\ SetTop(k, [Top(k) EXCEPT !.at = "done", !.ret = <<>>])
  /\ Log(k, <<Event("err", Top(k).url, Top(k).depth, <<>>)>>)
  /\ UNCHANGED <<domains, web, pc, i, results, saved, status, visitedUrls,
                 value>>

\* the retry made by calling crawlUrl again: the guard refuses the URL,
\* which is visited by now
CooldownDoneRecalls(k) ==
  /\ Running(k, "cooldown")
  /\ LET top == Top(k)
         call == CallCrawlUrl(top.url, visitedUrls[k], top.depth)
     IN /\ SetTop(k, [top EXCEPT !.attempts = top.attempts + 1,
                                  !.at = "done", !.ret = call.act.ret])
        /\ Log(k, <<Event("wait", top.url, top.depth, <<>>)>>)
  /\ UNCHANGED <<domains, web, pc, i, results, saved, status, visitedUrls,
                 value, faults>>

\* lines 90-91, 51-53 and 98: delay(3000) has elapsed
CooldownDone(k) ==
  /\ Running(k, "cooldown")
  /\ LET top == Top(k)
         attempts == top.attempts + 1
     IN IF RetryLoopContinues(attempts)
        THEN /\ SetTop(k, [top EXCEPT !.attempts = attempts, !.at = "get"])
             /\ Log(k, <<Event("wait", top.url, top.depth, <<>>),
                         Event("get", top.url, top.depth, <<>>)>>)
        ELSE /\ SetTop(k, [top EXCEPT !.attempts = attempts, !.at = "done",
                                      !.ret = <<>>])
             /\ Log(k, <<Event("wait", top.url, top.depth, <<>>)>>)
  /\ UNCHANGED <<domains, web, pc, i, results, saved, status, visitedUrls,
                 value, faults>>

\* the child called without a delay before it
DelayDoneUnthrottled(k) ==
  /\ Running(k, "delay")
  /\ LET top == Top(k)
         internalUrl == top.internalUrls[top.idx + 1]
         call == CallCrawlUrl(internalUrl, visitedUrls[k], top.depth + 1)
     IN /\ stack' = [stack EXCEPT ![k] =
             Append([@ EXCEPT ![Len(@)] = [top EXCEPT !.at = "child"]],
                    call.act)]
        /\ visitedUrls' = [visitedUrls EXCEPT ![k] = call.visitedUrls]
        /\ Log(k, call.events)
  /\ UNCHANGED <<domains, web, pc, i, results, saved, status, value, faults>>

\* lines 81-82: delay(DELAY_BETWEEN_REQUESTS) has elapsed; the child is
\* called and runs up to its first await
DelayDone(k) ==
  /\ Running(k, "delay")
  /\ LET top == Top(k)
         internalUrl == top.internalUrls[top.idx + 1]
         call == CallCrawlUrl(internalUrl, visitedUrls[k], top.depth + 1)
     IN /\ stack' = [stack EXCEPT ![k] =
             Append([@ EXCEPT ![Len(@)] = [top EXCEPT !.at = "child"]],
                    call.act)]
        /\ visitedUrls' = [visitedUrls EXCEPT ![k] = call.visitedUrls]
        /\ Log(k, <<Event("delay", internalUrl, top.depth + 1, <<>>)>> \o call.events)
  /\ UNCHANGED <<domains, web, pc, i, results, saved, status, value, faults>>

\* lines 82-86: the child's promise has resolved; its URLs are merged and
\* the loop goes on
ChildDone(k) ==
  /\ Running(k, "done")
  /\ Len(stack[k]) > 1
  /\ LET child == Top(k)
         n == Len(stack[k])
         parent == stack[k][n - 1]
     IN /\ stack' = [stack EXCEPT ![k] =
             [SubSeq(@, 1, n - 1) EXCEPT ![n - 1] =
                LoopOverChildren(
                  [parent EXCEPT
                     !.productUrls = MergeChild(@, child.ret),
                     !.idx = NextChildIndex(@)])]]
        /\ Log(k, <<Event(IF child.entered THEN "ret" ELSE "skipped",
                           child.url, child.depth, child.ret)>>)
  /\ UNCHANGED <<domains, web, pc, i, results, saved, status, visitedUrls,
                 value, faults>>

\* lines 107-108: the root crawlUrl has resolved; crawlDomain returns
DomainDone(k) ==
  /\ Running(k, "done")
  /\ Len(stack[k]) = 1
  /\ value' = [value EXCEPT ![k] =
       [domain |-> domains[k], productUrls |-> Top(k).ret]]
  /\ status' = [status EXCEPT ![k] = "resolved"]
  /\ stack' = [stack EXCEPT ![k] = <<>>]
  /\ Log(k, <<Event(IF Top(k).entered THEN "ret" ELSE "skipped",
                     Top(k).url, 0, Top(k).ret)>>)
  /\ UNCHANGED <<domains, web, pc, i, results, saved, visitedUrls, faults>>

(***************************************************************************)
(* Inputs                                                                  *)
(***************************************************************************)
\* all the orders in which the members of S can stand on a page
Orderings(S) ==
  {s \in [1..Cardinality(S) -> S] :
     \A m, n \in 1..Cardinality(S) : m /= n => s[m] /= s[n]}

\* the link sets a page of the sites may carry
LinkChoices(p) ==
  CASE p = "R" -> {{}, {"A"}, {"X"}, {"A", "X"}, {"Q1"}}
    [] p = "A" -> {{"B"}}
    [] p = "B" -> {{"X"}, {"X", "A"}}
    [] p = "X" -> {{"Y"}, {"Q2"}, {"Y", "Q2"}}
    [] p = "Y" -> {{"Q1"}, {"Q1", "R"}}

LinkLists(p) == UNION {Orderings(S) : S \in LinkChoices(p)}

\* one link list per page
LinksOf(r, a, b, x, y) ==
  [p \in Pages |->
     CASE p = "R" -> r [] p = "A" -> a [] p = "B" -> b
       [] p = "X" -> x [] p = "Y" -> y]

\* every site of the family
SiteLinks ==
  {LinksOf(r, a, b, x, y) :
     r \in LinkLists("R"), a \in LinkLists("A"), b \in LinkLists("B"),
     x \in LinkLists("X"), y \in LinkLists("Y")}

\* a domain as the entry point lists them: scheme and host
ConfiguredDomain == <<"https:", "//", "shop">>
\* a domain string that parses as a URL and occurs in a host name: the
\* scheme g with an empty path, met again in the IPv6 literal [g:]
LiteralDomain(g) == <<g>>
LiteralHost(g) == <<"[", g, ":]">>

Input(domain, host, form, links) ==
  LET site == [host |-> host, form |-> form, links |-> links] IN
  [domain |-> domain,
   site |-> [host |-> host, form |-> form, links |-> links,
             pages |-> Served(site, domain)]]

\* two small sites: the home page links a product; the home page links a
\* page that links a product
SmallLinks == LinksOf(<<"Q1">>, <<"B">>, <<"X">>, <<"Q2">>, <<"Q1">>)
PairLinks == LinksOf(<<"X">>, <<"B">>, <<"X">>, <<"Q2">>, <<"Q1">>)
\* the home page links a product and a page that links another product
ScenarioLinks == LinksOf(<<"Q1", "X">>, <<"B">>, <<"X">>, <<"Q2">>, <<"Q1">>)

\* one product linked twice on the home page and on a first child, and
\* once on a second child
RepeatedLinks ==
  LinksOf(<<"Q1", "A", "X", "Q1">>, <<"Q1", "Q1">>, <<"X">>, <<"Q1">>,
          <<"Q1">>)

\* a page linked at the end of a chain longer than the depth bound and,
\* later on the home page, directly
DeepLinks ==
  LinksOf(<<"A", "Y">>, <<"B">>, <<"X">>, <<"Y">>, <<"Q1">>)

\* a domain that is itself the URL of a product page
ProductDomain == <<"https:", "//", "shop", "/product/", "1">>

\* the inputs of a single-domain run
SingleInputs ==
  {Input(LiteralDomain("a:"), LiteralHost("a:"), "abs", l) : l \in SiteLinks}
  \cup {Input(ConfiguredDomain, <<"shop">>, f, l) :
          f \in {"abs", "rel"}, l \in {SmallLinks, PairLinks, ScenarioLinks}}
  \cup {Input(LiteralDomain("a:"), LiteralHost("a:"), "rel", PairLinks),
        Input(LiteralDomain("a:"), <<"other">>, "abs", PairLinks),
        Input(LiteralDomain("a:"), LiteralHost("a:"), "abs", RepeatedLinks),
        Input(LiteralDomain("a:"), LiteralHost("a:"), "abs", DeepLinks),
        Input(ProductDomain, <<"shop">>, "abs", ScenarioLinks)}

\* the inputs of a multi-domain run, taken in turn
MultiInputs ==
  <<Input(LiteralDomain("a:"), LiteralHost("a:"), "abs", SmallLinks),
    Input(ConfiguredDomain, <<"shop">>, "abs", PairLinks),
    Input(LiteralDomain("b:"), LiteralHost("b:"), "abs", PairLinks),
    Input(LiteralDomain("a:"), LiteralHost("a:"), "abs", SmallLinks),
    Input(ConfiguredDomain, <<"shop">>, "rel", SmallLinks)>>

MultiInput(k) == MultiInputs[((k - 1) % Len(MultiInputs)) + 1]

Init ==
  /\ \/ \E in \in SingleInputs :
          /\ domains = <<in.domain>>
          /\ web = <<in.site>>
     \/ /\ domains = [k \in 1..NumDomains |-> MultiInput(k).domain]
        /\ web = [k \in 1..NumDomains |-> MultiInput(k).site]
  /\ pc = "start"
  /\ i = 0
  /\ results = <<>>
  /\ saved = <<>>
  /\ status = [k \in Tasks |-> "pending"]
  /\ visitedUrls = [k \in Tasks |-> {}]
  /\ stack = [k \in Tasks |-> <<>>]
  /\ value = [k \in Tasks |-> [domain |-> <<>>, productUrls |-> <<>>]]
  /\ trace = [k \in Tasks |-> <<>>]
  /\ faults = 0

Next ==
  \/ Main
  \/ BatchDone
  \/ SaveResults
  \/ \E k \in Tasks : GetOk(k)
  \/ \E k \in Tasks : Get429(k)
  \/ \E k \in Tasks : GetErr(k)
  \/ \E k \in Tasks : CooldownDone(k)
  \/ \E k \in Tasks : DelayDone(k)
  \/ \E k \in Tasks : ChildDone(k)
  \/ \E k \in Tasks : DomainDone(k)

Spec == Init /\ [][Next]_vars

(***************************************************************************)
(* Reading the history of a domain crawl                                   *)
(***************************************************************************)
\* the positions of trace[k] that hold an event ev for url
EvtsAt(k, ev, url) ==
  {n \in 1..Len(trace[k]) : trace[k][n].ev = ev /\ trace[k][n].url = url}

Count(k, ev, url) == Cardinality(EvtsAt(k, ev, url))

\* the events ev of trace[k], whatever the url
Evts(k, ev) == {n \in 1..Len(trace[k]) : trace[k][n].ev = ev}

\* the URLs domain k has met: called, requested or skipped
Met(k) == {trace[k][n].url : n \in 1..Len(trace[k])}

Resolved(k) == status[k] = "resolved"

\* every request of domain k so far succeeded
AllOk(k) == Evts(k, "429") = {} /\ Evts(k, "err") = {}

(***************************************************************************)
(* Link distance on the site of domain k, with the code's own notion of an *)
(* in-domain link (isValidUrl) and of a product link (isProductUrl)        *)
(***************************************************************************)
\* the absolute URLs of the valid links on the page a request for u gets
LinksOn(k, u) ==
  {Href(URLParse(l, domains[k])) :
     l \in {h \in Range(web[k].pages[u]) : isValidUrl(h, domains[k])}}

RECURSIVE LinksAt(_, _)
\* the links at distance d from the root: the root page is at 0, the links
\* on it at 1, and the walk goes on through non-product links only
LinksAt(k, d) ==
  IF d = 0 THEN {domains[k]}
  ELSE UNION {LinksOn(k, u) :
                u \in {v \in LinksAt(k, d - 1) : d = 1 \/ ~isProductUrl(v)}}

\* the number of URLs the site of domain k answers, and of links on them
NumUrls(k) == Cardinality(DOMAIN web[k].pages)

RECURSIVE SumLinks(_, _)
SumLinks(k, S) ==
  IF S = {} THEN 0
  ELSE LET u == CHOOSE v \in S : TRUE
       IN Len(web[k].pages[u]) + SumLinks(k, S \ {u})

NumLinks(k) == SumLinks(k, DOMAIN web[k].pages)

\* the requests of domain k that failed so far
NumFailed(k) == Cardinality(Evts(k, "429") \cup Evts(k, "err"))

(***************************************************************************)
(* C1  Termination: whatever the link graph (cycles included) and whatever *)
(* each request is answered with, a domain crawl, that is a call           *)
(* crawlUrl(root, domain, visited, 0), cannot run forever.  Every step of  *)
(* a crawl adds to its history, so it is enough that (1) a running crawl   *)
(* always has a fetch, a delay or a ready continuation pending (it returns *)
(* when those return), (2) the recursion is never deeper than the depth    *)
(* bound allows: the activations at depths 0..MAX_DEPTH and one refused    *)
(* call, and (3) the number of its steps has a bound that the site and the *)
(* number of failed requests fix: 4 per URL (mark, get, answer, return),   *)
(* 3 per link (delay, refused call, its return), 3 per failed request.     *)
(***************************************************************************)
StepBound(k) == 1 + 4 * NumUrls(k) + 3 * NumLinks(k) + 3 * NumFailed(k)

C1_CrawlTerminates ==
  \A k \in Tasks :
    /\ status[k] = "running" =>
         /\ stack[k] /= <<>>
         /\ Top(k).at \in {"get", "cooldown", "delay", "done"}
         /\ \A n \in 1..(Len(stack[k]) - 1) : stack[k][n].at = "child"
    /\ status[k] = "pending" => trace[k] = <<>>
    /\ Len(stack[k]) <= MAX_DEPTH + 2
    /\ Len(trace[k]) <= StepBound(k)

\* a crawl of a cyclic site has returned after a 429, another failure and a
\* call refused by the depth bound
C1_Witness ==
  \E k \in Tasks :
    /\ Resolved(k)
    /\ "A" \in Range(web[k].links["B"])
    /\ Evts(k, "429") /= {} /\ Evts(k, "err") /= {}
    /\ \E n \in Evts(k, "skip") : trace[k][n].depth = MAX_DEPTH + 1

\* the least distance at which url is linked, or -1 when it is not linked
\* within any distance that matters
MaxDistance == MAX_DEPTH + 3

LinkDepth(k, url) ==
  IF \E d \in 0..MaxDistance : url \in LinksAt(k, d)
  THEN CHOOSE d \in 0..MaxDistance :
         /\ url \in LinksAt(k, d)
         /\ \A e \in 0..(d - 1) : url \notin LinksAt(k, e)
  ELSE -1

\* the product links of the site of domain k, at any distance
ProductLinks(k) ==
  {u \in UNION {LinksAt(k, d) : d \in 1..MaxDistance} : isProductUrl(u)}

\* what crawlDomain k returned, as a set
ResultSet(k) == Range(value[k].productUrls)

(***************************************************************************)
(* C2  Depth boundary, as stated: a product link whose least distance from *)
(* the root is MAX_DEPTH + 1 (root page 0, its links 1) is not in the      *)
(* domain's productUrls.                                                   *)
(***************************************************************************)
C2_Original ==
  \A k \in Tasks :
    Resolved(k) =>
      \A u \in ResultSet(k) : LinkDepth(k, u) /= MAX_DEPTH + 1

(***************************************************************************)
(* C2 amended: the pages at depth MAX_DEPTH are still fetched and the      *)
(* product links on them listed, so the bound on a listed product link is  *)
(* MAX_DEPTH + 1: a product link whose least distance from the root is     *)
(* MAX_DEPTH + 2 or more is not in the domain's productUrls.               *)
(***************************************************************************)
C2_DepthBoundary ==
  \A k \in Tasks :
    Resolved(k) =>
      \A u \in ResultSet(k) : LinkDepth(k, u) \in 1..(MAX_DEPTH + 1)

\* every request succeeded, the call at depth MAX_DEPTH + 1 was refused, and
\* the result holds a product link at MAX_DEPTH + 1 while the site has
\* one at MAX_DEPTH + 2 that the result lacks
C2_Witness ==
  \E k \in Tasks :
    /\ Resolved(k) /\ AllOk(k)
    /\ \E n \in Evts(k, "skip") : trace[k][n].depth = MAX_DEPTH + 1
    /\ \E u \in ResultSet(k) : LinkDepth(k, u) = MAX_DEPTH + 1
    /\ \E u \in ProductLinks(k) :
         LinkDepth(k, u) = MAX_DEPTH + 2 /\ u \notin ResultSet(k)

(***************************************************************************)
(* crawlUrl as a function: what a call returns and the visited set it      *)
(* leaves, on the site pages, when the requests for the URLs in ok succeed *)
(* and the requests for the others end in failure                          *)
(***************************************************************************)
RECURSIVE CrawlFn(_, _, _, _, _, _)
RECURSIVE CrawlChildren(_, _, _, _, _, _, _)

CrawlFn(pages, baseDomain, ok, url, visited, depth) ==
  IF EntryGuardRejects(url, visited, depth)
  THEN [ret |-> <<>>, visited |-> visited]
  ELSE IF url \notin ok
  THEN [ret |-> <<>>, visited |-> visited \cup {url}]
  ELSE LET found ==
             ExtractLinks([productUrls |-> <<>>, internalUrls |-> <<>>],
                          pages[url], baseDomain, visited \cup {url})
       IN CrawlChildren(pages, baseDomain, ok, found.productUrls,
                        found.internalUrls, visited \cup {url}, depth)

CrawlChildren(pages, baseDomain, ok, productUrls, queue, visited, depth) ==
  IF queue = <<>> THEN [ret |-> productUrls, visited |-> visited]
  ELSE LET child == CrawlFn(pages, baseDomain, ok, Head(queue), visited,
                            depth + 1)
       IN CrawlChildren(pages, baseDomain, ok,
                        MergeChild(productUrls, child.ret), Tail(queue),
                        child.visited, depth)

\* what crawlDomain returns on the site pages
CrawlDomainFn(pages, domain, ok) ==
  CrawlFn(pages, domain, ok, domain, {}, 0).ret

\* the URLs whose request succeeded in the crawl of domain k
OkUrls(k) == {trace[k][n].url : n \in Evts(k, "ok")}

\* the same pages with the links of each in another order
RECURSIVE ReorderingsOn(_, _)
ReorderingsOn(pages, urls) ==
  IF urls = {} THEN {[u \in {} |-> <<>>]}
  ELSE LET c == CHOOSE u \in urls : TRUE
       IN {[u \in urls |-> IF u = c THEN o ELSE q[u]] :
             q \in ReorderingsOn(pages, urls \ {c}),
             o \in Orderings(Range(pages[c]))}

Reorderings(pages) == ReorderingsOn(pages, DOMAIN pages)

(***************************************************************************)
(* C3  Depth boundary, the other half: when every request succeeds, a      *)
(* product link that some path of MAX_DEPTH links reaches from the root    *)
(* (through in-domain, non-product pages) is in the domain's productUrls,  *)
(* whatever the order of the links on the pages.                           *)
(***************************************************************************)
C3_Original ==
  \A k \in Tasks :
    (Resolved(k) /\ AllOk(k)) =>
      \A u \in LinksAt(k, MAX_DEPTH) : isProductUrl(u) => u \in ResultSet(k)

(***************************************************************************)
(* C4  Link order affects timing only: when every request succeeds, the    *)
(* set of product URLs a domain crawl returns is the set it returns with   *)
(* the links of every page in any other order.                             *)
(***************************************************************************)
C4_Original ==
  \A k \in Tasks :
    (Resolved(k) /\ AllOk(k)) =>
      \A q \in Reorderings(web[k].pages) :
        Range(CrawlDomainFn(q, domains[k], DOMAIN q)) = ResultSet(k)

(***************************************************************************)
(* C5  Rate limiting: a URL is requested at most RETRY_LIMIT times and     *)
(* waited for at most RETRY_LIMIT times; when every request for it was     *)
(* answered 429 and its call has returned, the call returned the empty     *)
(* list to its caller (it did not throw), after exactly RETRY_LIMIT        *)
(* requests and exactly RETRY_LIMIT cooldown waits.                        *)
(***************************************************************************)
\* the calls of crawlUrl for url that passed the guard and have returned
Returns(k, url) == EvtsAt(k, "ret", url)

C5_RateLimitedPage ==
  \A k \in Tasks :
    \A u \in Met(k) :
      /\ Count(k, "get", u) <= RETRY_LIMIT
      /\ Count(k, "wait", u) <= RETRY_LIMIT
      /\ (Returns(k, u) /= {} /\ Count(k, "429", u) = Count(k, "get", u)) =>
           /\ \A n \in Returns(k, u) : trace[k][n].ret = <<>>
           /\ Count(k, "get", u) = RETRY_LIMIT
           /\ Count(k, "wait", u) = RETRY_LIMIT

\* a page below the root answered 429 every time, its call returned and
\* the crawl of the domain went on to its end
C5_Witness ==
  \E k \in Tasks :
    \E u \in Met(k) :
      /\ u /= domains[k]
      /\ Count(k, "429", u) = RETRY_LIMIT
      /\ Returns(k, u) /= {}
      /\ Resolved(k)

(***************************************************************************)
(* C6  Other failures are terminal: once a request for a URL has failed    *)
(* with anything but a 429, the crawl of the domain issues no request for  *)
(* that URL and waits no cooldown for it any more, and the call returns    *)
(* the empty list, also when 429 answers and retries came before.          *)
(***************************************************************************)
C6_OtherFailureTerminal ==
  \A k \in Tasks :
    \A n \in Evts(k, "err") :
      /\ \A m \in (n + 1)..Len(trace[k]) :
           trace[k][m].url = trace[k][n].url =>
             trace[k][m].ev \notin {"get", "wait", "429", "ok", "mark"}
      /\ \A m \in Returns(k, trace[k][n].url) : trace[k][m].ret = <<>>
      /\ Count(k, "err", trace[k][n].url) = 1

\* a URL failed after a 429 and a retry, its call returned, and a later
\* link to it was met
C6_Witness ==
  \E k \in Tasks :
    \E n \in Evts(k, "err") :
      /\ Count(k, "429", trace[k][n].url) > 0
      /\ Returns(k, trace[k][n].url) /= {}
      /\ \E m \in (n + 1)..Len(trace[k]) :
           /\ trace[k][m].url = trace[k][n].url
           /\ trace[k][m].ev = "skip"

(***************************************************************************)
(* C7  Marked before fetched, and once: whenever a request for a URL is    *)
(* pending the URL is in the visited set of its domain crawl, every        *)
(* request in the history comes after the URL was marked, and no URL is    *)
(* marked (passes the entry guard) twice in one domain crawl.              *)
(***************************************************************************)
C7_MarkedOnceBeforeFetch ==
  \A k \in Tasks :
    /\ \A f \in 1..Len(stack[k]) :
         stack[k][f].entered => stack[k][f].url \in visitedUrls[k]
    /\ \A n \in Evts(k, "get") :
         \E m \in 1..(n - 1) :
           trace[k][m].ev = "mark" /\ trace[k][m].url = trace[k][n].url
    /\ \A u \in Met(k) : Count(k, "mark", u) <= 1

\* a URL that was queued twice before it was fetched: its second call, at
\* a depth within the bound, was refused
C7_Witness ==
  \E k \in Tasks :
    \E n \in Evts(k, "skip") :
      /\ trace[k][n].depth <= MAX_DEPTH
      /\ Count(k, "mark", trace[k][n].url) = 1
      /\ Count(k, "ok", trace[k][n].url) = 1

(***************************************************************************)
(* C8  A failed page is absorbed: when a call whose own request succeeded  *)
(* has returned, then whatever its children did (failed at once, ran out   *)
(* of retries, or returned URLs) it has waited for and called every URL    *)
(* it had queued, and the list it returned holds the product links of its  *)
(* own page and everything each of its children returned.                  *)
(***************************************************************************)
\* the internal links the page of u queues when its answer arrives at
\* position m of the history: those not marked before
QueuedAt(k, u, m) ==
  {v \in LinksOn(k, u) :
     /\ ~isProductUrl(v)
     /\ \A j \in 1..(m - 1) :
          ~(trace[k][j].ev = "mark" /\ trace[k][j].url = v)}

\* the returns of the children of the call that got its answer at m and
\* returned at n
ChildReturns(k, m, n) ==
  {j \in (m + 1)..(n - 1) :
     /\ trace[k][j].ev \in {"ret", "skipped"}
     /\ trace[k][j].depth = trace[k][n].depth + 1}

\* the request for url failed for good: another failure, or 429 every time
FailedFor(k, url) ==
  Count(k, "err", url) > 0 \/ Count(k, "429", url) = RETRY_LIMIT

C8_FailureAbsorbed ==
  \A k \in Tasks :
    \A n \in Evts(k, "ret") :
      \A m \in {j \in EvtsAt(k, "ok", trace[k][n].url) : j < n} :
        /\ \A u \in LinksOn(k, trace[k][n].url) :
             isProductUrl(u) => u \in Range(trace[k][n].ret)
        /\ \A u \in QueuedAt(k, trace[k][n].url, m) :
             \E j \in (m + 1)..(n - 1) :
               /\ trace[k][j].ev = "delay"
               /\ trace[k][j].url = u
               /\ trace[k][j].depth = trace[k][n].depth + 1
        /\ \A j \in ChildReturns(k, m, n) :
             Range(trace[k][j].ret) \subseteq Range(trace[k][n].ret)

\* a page returned the product link its second child returned, after the
\* request of its first child had failed
C8_Witness ==
  \E k \in Tasks :
    \E n \in Evts(k, "ret") :
      \E m \in {j \in EvtsAt(k, "ok", trace[k][n].url) : j < n} :
        \E f, g \in ChildReturns(k, m, n) :
          /\ f < g
          /\ FailedFor(k, trace[k][f].url)
          /\ trace[k][g].ret /= <<>>
          /\ Range(trace[k][g].ret) \subseteq Range(trace[k][n].ret)

(***************************************************************************)
(* C9  Domain crawls are isolated: the visited set of a domain crawl holds *)
(* exactly the URLs that crawl itself marked; what a domain crawl returns  *)
(* is what crawlDomain returns when run alone on the same site with the    *)
(* same answers, whatever the other crawls did (a failed root request      *)
(* included); and two domains whose sites share no link return disjoint    *)
(* lists.                                                                  *)
(***************************************************************************)
\* the URLs domain crawl k marked itself
MarkedBy(k) == {trace[k][n].url : n \in Evts(k, "mark")}

\* every link of the site of domain k, as an absolute URL
AllLinks(k) == UNION {LinksOn(k, u) : u \in DOMAIN web[k].pages}

C9_DomainsIsolated ==
  /\ \A k \in Tasks : visitedUrls[k] = MarkedBy(k)
  /\ \A k \in Tasks :
       Resolved(k) =>
         value[k] = [domain |-> domains[k],
                     productUrls |->
                       CrawlDomainFn(web[k].pages, domains[k], OkUrls(k))]
  /\ \A j, k \in Tasks :
       (j /= k /\ Resolved(j) /\ Resolved(k)
          /\ AllLinks(j) \cap AllLinks(k) = {}) =>
         ResultSet(j) \cap ResultSet(k) = {}

\* the root request of one domain failed, and two other domains that share
\* no link have each returned product URLs
C9_Witness ==
  \E j, k, l \in Tasks :
    /\ j /= k /\ j /= l /\ k /= l
    /\ Resolved(j) /\ Count(j, "err", domains[j]) > 0
    /\ Resolved(k) /\ Resolved(l)
    /\ AllLinks(k) \cap AllLinks(l) = {}
    /\ ResultSet(k) /= {} /\ ResultSet(l) /= {}

(***************************************************************************)
(* C10  Batches: at most PARALLEL_REQUESTS domain crawls are running at    *)
(* any moment, and a domain crawl of a later batch has not started while   *)
(* a domain crawl of an earlier batch has not resolved.                    *)
(***************************************************************************)
\* the batch of domain k, counted from 0
BatchOf(k) == (k - 1) \div PARALLEL_REQUESTS

C10_BatchBarrier ==
  /\ Cardinality({k \in Tasks : status[k] = "running"}) <= PARALLEL_REQUESTS
  /\ \A j, k \in Tasks :
       (BatchOf(j) < BatchOf(k) /\ status[k] /= "pending") =>
         status[j] = "resolved"

\* the second batch is running, after a first batch of PARALLEL_REQUESTS
\* crawls one of which ended with a failed root request
C10_Witness ==
  /\ \E k \in Tasks : BatchOf(k) = 1 /\ status[k] = "running"
  /\ Cardinality({j \in Tasks : BatchOf(j) = 0}) = PARALLEL_REQUESTS
  /\ \E j \in Tasks : BatchOf(j) = 0 /\ Count(j, "err", domains[j]) > 0

(***************************************************************************)
(* C11  One entry per domain, in submission order, saved once: when        *)
(* crawlDomains has returned, results has exactly one entry per input      *)
(* domain, entry k being what the crawl of domains[k] resolved with,       *)
(* whatever the order in which the crawls of a batch resolved; saveResults *)
(* is called at most once, with that list, and only when every domain      *)
(* crawl has resolved.                                                     *)
(***************************************************************************)
C11_ResultsInSubmissionOrder ==
  /\ pc \in {"returned", "exit"} =>
       /\ \A k \in Tasks : Resolved(k)
       /\ Len(results) = Len(domains)
       /\ \A k \in Tasks :
            /\ results[k].domain = domains[k]
            /\ results[k] = value[k]
  /\ Len(saved) <= 1
  /\ saved /= <<>> => (pc = "exit" /\ saved = <<results>>)
  /\ pc = "exit" => Len(saved) = 1

\* the results of two batches were saved, with empty and non-empty lists
\* among them
C11_Witness ==
  /\ pc = "exit"
  /\ saved = <<results>>
  /\ Len(results) > PARALLEL_REQUESTS
  /\ \E j, k \in Tasks :
       results[j].productUrls = <<>> /\ results[k].productUrls /= <<>>

(***************************************************************************)
(* C12  Unreachable root: a domain whose root request failed for good      *)
(* (another failure than 429, or 429 on every attempt) keeps running to    *)
(* its return or has resolved, never rejected; it resolves with the entry  *)
(* {domain, productUrls: []}, and that entry is at the domain's place in   *)
(* what crawlDomains returns.                                              *)
(***************************************************************************)
EmptyEntry(k) == [domain |-> domains[k], productUrls |-> <<>>]

C12_UnreachableRoot ==
  \A k \in Tasks :
    FailedFor(k, domains[k]) =>
      /\ status[k] \in {"running", "resolved"}
      /\ status[k] = "running" =>
           /\ Len(stack[k]) = 1
           /\ Top(k).at \in {"cooldown", "done"}
           /\ Top(k).at = "done" => Top(k).ret = <<>>
      /\ Resolved(k) => value[k] = EmptyEntry(k)
      /\ pc \in {"returned", "exit"} =>
           (k \in DOMAIN results /\ results[k] = EmptyEntry(k))

\* the root of a domain whose home page links a product failed, and the
\* saved results hold the domain's entry
C12_Witness ==
  \E k \in Tasks :
    /\ FailedFor(k, domains[k])
    /\ LinksOn(k, domains[k]) /= {}
    /\ pc = "exit"
    /\ saved = <<results>>
    /\ results[k] = EmptyEntry(k)
    /\ \E j \in Tasks : results[j].productUrls /= <<>>

(***************************************************************************)
(* C13  Scenario: the domain is given as scheme and host, its home page    *)
(* links a product and a page, and that page links a second product, all   *)
(* on the domain's host; when every request has succeeded, productUrls     *)
(* holds both product URLs.                                                *)
(***************************************************************************)
\* the absolute URL of target t on the host of a scheme-and-host domain
UrlOn(domain, t) == Href(URLParse(PagePath(t), domain))

C13_Original ==
  \A k \in Tasks :
    (/\ domains[k] = ConfiguredDomain
     /\ web[k].links = ScenarioLinks
     /\ Resolved(k) /\ AllOk(k)) =>
      {UrlOn(domains[k], "Q1"), UrlOn(domains[k], "Q2")}
        \subseteq ResultSet(k)

(***************************************************************************)
(* C14  Validity of a link: for a domain given as scheme and host, a link  *)
(* on a fetched page is valid exactly when it resolves against the domain  *)
(* to a URL whose host contains the domain's host; so the path-absolute    *)
(* links and the absolute links to the domain's own host are valid.        *)
(***************************************************************************)
\* a root location: scheme and host, no path beyond the root
IsRootLocation(domain) ==
  LET b == ParseAbsolute(domain)
  IN b.ok /\ ~b.opaque /\ b.path \in {<<>>, <<"/">>}

\* the link resolves and the host of the result contains the domain's host
ResolvesOnHost(link, domain) ==
  LET parsedUrl == URLParse(link, domain)
  IN IF parsedUrl.ok
     THEN Includes(Hostname(parsedUrl), Hostname(ParseAbsolute(domain)))
     ELSE FALSE

C14_Original ==
  \A k \in Tasks :
    IsRootLocation(domains[k]) =>
      \A n \in Evts(k, "ok") :
        \A link \in Range(web[k].pages[trace[k][n].url]) :
          isValidUrl(link, domains[k]) = ResolvesOnHost(link, domains[k])

(***************************************************************************)
(* C15  No duplicates: every list a crawlUrl call returns, and so the      *)
(* productUrls of every domain, holds each URL once, also when a product   *)
(* is linked twice on a page, on several pages, or returned by several     *)
(* children.                                                               *)
(***************************************************************************)
NoDuplicates(s) == \A m, n \in 1..Len(s) : s[m] = s[n] => m = n

C15_NoDuplicates ==
  \A k \in Tasks :
    /\ \A n \in 1..Len(trace[k]) : NoDuplicates(trace[k][n].ret)
    /\ \A f \in 1..Len(stack[k]) :
         /\ NoDuplicates(stack[k][f].productUrls)
         /\ NoDuplicates(stack[k][f].ret)
    /\ NoDuplicates(value[k].productUrls)

\* the home page carries a product link twice, two of its children have
\* each returned that product, and the domain's list holds it once
C15_Witness ==
  \E k \in Tasks :
    /\ Resolved(k)
    /\ \E m, n \in DOMAIN web[k].pages[domains[k]] :
         /\ m /= n
         /\ web[k].pages[domains[k]][m] = web[k].pages[domains[k]][n]
         /\ isProductUrl(web[k].pages[domains[k]][m])
    /\ \E f, g \in Evts(k, "ret") :
         /\ f /= g
         /\ trace[k][f].depth = 1 /\ trace[k][g].depth = 1
         /\ trace[k][f].ret /= <<>>
         /\ trace[k][f].ret = trace[k][g].ret
         /\ value[k].productUrls = trace[k][f].ret

(***************************************************************************)
(* C16  Sequential expansion: in one domain crawl a request is issued only *)
(* when the request before it has been answered; a child call begins only  *)
(* when every earlier call at its depth has returned, its subtree done;    *)
(* and what a returned child returned is in its parent's set from then on. *)
(***************************************************************************)
Answers == {"ok", "429", "err"}

\* for a call that passed the guard and got its page: the position of the
\* answer that started its loop over the children
LoopStarts(k, f) ==
  {m \in EvtsAt(k, "ok", stack[k][f].url) :
     stack[k][f].entered /\ stack[k][f].at /= "get"}

C16_SequentialChildren ==
  \A k \in Tasks :
    /\ \A a, b \in Evts(k, "get") :
         a < b =>
           \E j \in (a + 1)..(b - 1) :
             /\ trace[k][j].ev \in Answers
             /\ trace[k][j].url = trace[k][a].url
    /\ \A a, b \in Evts(k, "delay") :
         (a < b /\ trace[k][a].depth = trace[k][b].depth) =>
           \E j \in (a + 1)..(b - 1) :
             /\ trace[k][j].ev \in {"ret", "skipped"}
             /\ trace[k][j].url = trace[k][a].url
             /\ trace[k][j].depth = trace[k][a].depth
    /\ \A f \in 1..Len(stack[k]) :
         \A m \in LoopStarts(k, f) :
           \A j \in (m + 1)..Len(trace[k]) :
             (/\ trace[k][j].ev \in {"ret", "skipped"}
              /\ trace[k][j].depth = stack[k][f].depth + 1) =>
               Range(trace[k][j].ret) \subseteq Range(stack[k][f].productUrls)

\* the home page's first child was fetched with a child of its own and
\* returned a product before the request for the second child was issued
C16_Witness ==
  \E k \in Tasks :
    \E a, b \in Evts(k, "delay") :
      /\ a < b
      /\ trace[k][a].depth = 1 /\ trace[k][b].depth = 1
      /\ \E j \in (a + 1)..(b - 1) :
           trace[k][j].ev = "ok" /\ trace[k][j].depth = 2
      /\ \E j \in (a + 1)..(b - 1) :
           /\ trace[k][j].ev = "ret" /\ trace[k][j].depth = 1
           /\ trace[k][j].ret /= <<>>
      /\ \E j \in (b + 1)..Len(trace[k]) :
           trace[k][j].ev = "get" /\ trace[k][j].url = trace[k][b].url

(***************************************************************************)
(* C17  Retries stay inside the fetch: while fewer than RETRY_LIMIT        *)
(* cooldowns have been waited for a URL, every 429 is followed by a wait   *)
(* and a new request; a URL that succeeded after n answers 429 has         *)
(* n < RETRY_LIMIT, n waits and n + 1 requests; and its call returns the   *)
(* list crawlUrl returns when the URL succeeds on the first request (the   *)
(* visited set at its call and the answers of the other URLs the same).    *)
(***************************************************************************)
\* the URLs marked before position n of the history
MarkedBefore(k, n) ==
  {trace[k][j].url : j \in {m \in Evts(k, "mark") : m < n}}

\* what the call that returned at position n returns when every URL that
\* got its page gets it on its first request
FirstTryReturn(k, n) ==
  LET url == trace[k][n].url
      marked == CHOOSE m \in EvtsAt(k, "mark", url) : TRUE
  IN CrawlFn(web[k].pages, domains[k], OkUrls(k), url,
             MarkedBefore(k, marked), trace[k][n].depth).ret

C17_RetryInvisible ==
  \A k \in Tasks :
    /\ \A u \in MarkedBy(k) :
         /\ (Count(k, "wait", u) < RETRY_LIMIT /\ Count(k, "err", u) = 0) =>
              Count(k, "get", u) = Count(k, "wait", u) + 1
         /\ Count(k, "ok", u) > 0 =>
              /\ Count(k, "429", u) < RETRY_LIMIT
              /\ Count(k, "wait", u) = Count(k, "429", u)
              /\ Count(k, "get", u) = Count(k, "429", u) + 1
              /\ Count(k, "err", u) = 0
    /\ \A n \in Evts(k, "ret") :
         (/\ Count(k, "ok", trace[k][n].url) > 0
          /\ Count(k, "429", trace[k][n].url) > 0) =>
           trace[k][n].ret = FirstTryReturn(k, n)

\* a page below the root answered 429 twice and then succeeded, and its
\* call returned a product
C17_Witness ==
  \E k \in Tasks :
    \E n \in Evts(k, "ret") :
      /\ trace[k][n].depth > 0
      /\ Count(k, "429", trace[k][n].url) = RETRY_LIMIT - 1
      /\ Count(k, "ok", trace[k][n].url) = 1
      /\ trace[k][n].ret /= <<>>
      /\ trace[k][n].ret = FirstTryReturn(k, n)

(***************************************************************************)
(* C18  A delay before every child: every call of crawlUrl below the root  *)
(* (it marks and requests the URL, or is refused) comes right after one    *)
(* elapsed delay of its own; the delay is awaited only when no request is  *)
(* outstanding, so every request issued before it has been answered; and   *)
(* two first requests of one domain crawl have a delay between them.       *)
(***************************************************************************)
\* the first requests: those issued by the call itself, right after the mark
FirstGets(k) ==
  {n \in Evts(k, "get") : n > 1 /\ trace[k][n - 1].ev = "mark"}

C18_DelayBeforeChild ==
  \A k \in Tasks :
    /\ \A n \in Evts(k, "mark") \cup Evts(k, "skip") :
         trace[k][n].depth > 0 =>
           /\ n > 1
           /\ trace[k][n - 1].ev = "delay"
           /\ trace[k][n - 1].url = trace[k][n].url
           /\ trace[k][n - 1].depth = trace[k][n].depth
    /\ \A n \in Evts(k, "delay") :
         /\ n < Len(trace[k])
         /\ trace[k][n + 1].ev \in {"mark", "skip"}
         /\ \A a \in Evts(k, "get") :
              a < n =>
                \E j \in (a + 1)..(n - 1) :
                  /\ trace[k][j].ev \in Answers
                  /\ trace[k][j].url = trace[k][a].url
    /\ \A a, b \in FirstGets(k) :
         a < b => \E j \in (a + 1)..(b - 1) : trace[k][j].ev = "delay"
    /\ (status[k] = "running" /\ Top(k).at = "delay") =>
         trace[k][Len(trace[k])].ev \in {"ok", "ret", "skipped"}

\* a child was requested, answered 429, retried and fetched; after a delay
\* the next page was requested
C18_Witness ==
  \E k \in Tasks :
    \E a, b \in FirstGets(k) :
      /\ a < b
      /\ trace[k][a].depth > 0
      /\ Count(k, "429", trace[k][a].url) > 0
      /\ Count(k, "ok", trace[k][a].url) > 0
      /\ trace[k][b - 2].ev = "delay"
      /\ trace[k][b - 2].url = trace[k][b].url

(***************************************************************************)
(* C19  A call refused for its depth has no effect: the visited set holds  *)
(* only URLs marked at a depth within the bound, no request is issued      *)
(* beyond the bound, a refused call returns at once, and a call within     *)
(* the bound is refused only for a URL that was marked before; so a URL    *)
(* first met beyond the bound is crawled when a call within the bound      *)
(* reaches it.                                                             *)
(***************************************************************************)
C19_DepthRefusalNoEffect ==
  \A k \in Tasks :
    /\ visitedUrls[k] =
         {trace[k][n].url :
            n \in {m \in Evts(k, "mark") : trace[k][m].depth <= MAX_DEPTH}}
    /\ \A n \in Evts(k, "mark") \cup Evts(k, "get") :
         trace[k][n].depth <= MAX_DEPTH
    /\ \A n \in Evts(k, "skip") :
         /\ trace[k][n].depth <= MAX_DEPTH =>
              trace[k][n].url \in MarkedBefore(k, n)
         /\ n < Len(trace[k]) =>
              /\ trace[k][n + 1].ev = "skipped"
              /\ trace[k][n + 1].url = trace[k][n].url
              /\ trace[k][n + 1].ret = <<>>

\* a URL was refused beyond the bound while unmarked, and later marked
\* and fetched at a depth within the bound
C19_Witness ==
  \E k \in Tasks :
    \E n \in Evts(k, "skip") :
      /\ trace[k][n].depth = MAX_DEPTH + 1
      /\ trace[k][n].url \notin MarkedBefore(k, n)
      /\ \E m \in EvtsAt(k, "mark", trace[k][n].url) :
           m > n /\ trace[k][m].depth <= MAX_DEPTH
      /\ Count(k, "ok", trace[k][n].url) = 1
      /\ Resolved(k) /\ ResultSet(k) /= {}

(***************************************************************************)
(* C20  Product links are listed, not followed: no call below the root is  *)
(* made for a URL that matches a product pattern, so none is queued,       *)
(* delayed for, marked or requested (the root is the domain as given,      *)
(* whatever its path); and every URL a call returns matches a product      *)
(* pattern and is the resolved form of a valid link on a page the crawl    *)
(* fetched.                                                                *)
(***************************************************************************)
\* the resolved valid links on the pages domain crawl k has fetched
FetchedLinks(k) == UNION {LinksOn(k, u) : u \in OkUrls(k)}

C20_ProductsNotFollowed ==
  \A k \in Tasks :
    /\ \A n \in 1..Len(trace[k]) :
         trace[k][n].depth > 0 => ~isProductUrl(trace[k][n].url)
    /\ \A u \in visitedUrls[k] : isProductUrl(u) => u = domains[k]
    /\ \A f \in 1..Len(stack[k]) :
         /\ \A n \in 1..Len(stack[k][f].internalUrls) :
              ~isProductUrl(stack[k][f].internalUrls[n])
         /\ \A u \in Range(stack[k][f].productUrls) :
              isProductUrl(u) /\ u \in FetchedLinks(k)
    /\ \A n \in 1..Len(trace[k]) :
         \A u \in Range(trace[k][n].ret) :
           isProductUrl(u) /\ u \in FetchedLinks(k)
    /\ \A u \in ResultSet(k) : isProductUrl(u) /\ u \in FetchedLinks(k)

\* a crawl that fetched pages below the root has returned product URLs,
\* none of which it called, marked or requested
C20_Witness ==
  \E k \in Tasks :
    /\ Resolved(k)
    /\ Cardinality(ResultSet(k)) = 2
    /\ ResultSet(k) \cap Met(k) = {}
    /\ ResultSet(k) \cap visitedUrls[k] = {}
    /\ \E n \in Evts(k, "ok") : trace[k][n].depth > 1

=============================================================================
